---- MODULE Spec2Model ----
(***************************************************************************)
(* gommap: memory mapped files and devices (src/gommap.go).                *)
(*                                                                         *)
(* The model holds one MMap object, the kernel's view of the mapping that  *)
(* backs it, the backing file, and a record of the last call made on the   *)
(* package: which function, with which arguments, which kernel calls it    *)
(* issued and what it returned.  The kernel is the environment: each       *)
(* system call answers with an errno drawn from the answers the kernel can *)
(* give for those arguments.                                               *)
(***************************************************************************)
EXTENDS Integers, Sequences, FiniteSets, TLC

VARIABLES
    mmap,     \* the *MMap object: alloc (pointer non-nil), Data, internalData
    kern,     \* kernel: pages of the mapping still mapped, its base, file offset, flags
    file,     \* content of the backing file, one entry per byte
    mem,      \* content of the mapped memory, one entry per byte of the mapping
    mapFlags, \* the flags the caller gave when the region was created
    lastOp,   \* the last call: function name and arguments
    kcalls,   \* the kernel calls the last call issued, in order
    ret,      \* what the last call returned
    nwrites,  \* number of stores made through the buffer so far
    arch,     \* the architecture the package was built for
    prev,     \* the call before the last, when the two were made back to back
    thr       \* the threads inside UnsafeUnmap: position and locals of each

vars == <<mmap, kern, file, mem, mapFlags, lastOp, kcalls, ret, nwrites,
          arch, prev, thr>>

----------------------------------------------------------------------------
(* Bounds of the model.                                                    *)

\* os.Getpagesize(), scaled down.
PageSize == 2
\* Pages of the address space a mapping can occupy.
MaxPages == 2
\* Stores through the buffer that a behaviour makes.
MaxWrites == 1

\* Page 0 is never mapped (nil), pages 1..MaxPages are user memory, the upper
\* half of the address space belongs to the kernel.
UserTop == PageSize * (MaxPages + 1)
AddrSpace == 2 * UserTop
MaxLen == PageSize * MaxPages
UserPages == 1..MaxPages

----------------------------------------------------------------------------
(* Values of the platform: constants of consts.go and errno names.         *)

PROT_READ == 1
PROT_WRITE == 2
MAP_SHARED == 1
MAP_PRIVATE == 2
MS_ASYNC == 1
MS_SYNC == 4
MADV_NORMAL == 0
MADV_RANDOM == 1
\* The advice TestAdvise passes to be refused.
BadAdvice == 9999

OK == "0"
EACCES == "permission denied"
EBADF == "bad file descriptor"
EINVAL == "invalid argument"
ENOMEM == "cannot allocate memory"

\* os.Error values: nil, os.Errno(errno) (named by its errno), os.NewError(msg).
Nil == "nil"
ErrRegion == "Region must be a slice of mmap.Data"
\* What a function without results returns.
NoValue == "no value"

----------------------------------------------------------------------------
(* Slices and integer conversions.                                         *)

\* reflect.SliceHeader
SliceHeader(data, len, cap) == [Data |-> data, Len |-> len, Cap |-> cap]
NilSlice == SliceHeader(0, 0, 0)

\* uintptr(x): unsigned, of the width of an address.
UintptrOf(x) == x % AddrSpace

\* int(x): signed, of the width of an address (amd64).
IntOf(x) ==
    LET m == x % AddrSpace
    IN  IF m >= AddrSpace \div 2 THEN m - AddrSpace ELSE m

\* s[:] of a slice s.
Full(s) == s

\* The slices a caller can hold: nil, and every window of user memory.
Slices ==
    {NilSlice} \cup
    {s \in {SliceHeader(a, n, n) : a \in PageSize..UserTop, n \in 0..MaxLen} :
        s.Data + s.Len <= UserTop}

PageOf(a) == a \div PageSize
Aligned(a) == a % PageSize = 0
\* Pages touched by [a, a+n).
PagesOf(a, n) == IF n = 0 THEN {} ELSE PageOf(a)..PageOf(a + n - 1)

----------------------------------------------------------------------------
(* The kernel and the file layer.                                          *)

\* The descriptors a caller can pass: open read-write, open read-only, closed.
FdTable == <<"rw", "ro", "closed">>
Fds == DOMAIN FdTable

NoMapping == [mapped |-> {}, base |-> 0, len |-> 0, off |-> 0, flags |-> 0]

\* A kernel call as issued: its name, its arguments, and the kernel's answer
\* (errno, the value returned: the address for mmap and the size for fstat,
\* the residency vector mincore fills in).
Syscall(sys, args, ans) ==
    [sys |-> sys, args |-> args, errno |-> ans.errno, r1 |-> ans.r1,
     vec |-> ans.vec]
Answer(errno, r1, vec) == [errno |-> errno, r1 |-> r1, vec |-> vec]
Failed(S) == {Answer(e, 0, <<>>) : e \in S}
Done == {Answer(OK, 0, <<>>)}

HasWrite(prot) == (prot \div PROT_WRITE) % 2 = 1
AllMapped(addr, len) == PagesOf(addr, len) \subseteq kern.mapped
PagesFor(len) == (len + PageSize - 1) \div PageSize

\* fstat(2): the size of the file behind the descriptor.
KernelFstat(fd) ==
    IF FdTable[fd] = "closed" THEN Failed({EBADF})
    ELSE {Answer(OK, Len(file), <<>>)}

\* mmap(2): any free page-aligned window of user memory, or a refusal.
KernelMmap(addr, length, prot, flags, fd, offset) ==
    IF FdTable[fd] = "closed" THEN Failed({EBADF})
    ELSE IF length = 0 \/ ~Aligned(offset) THEN Failed({EINVAL})
    ELSE IF flags = MAP_SHARED /\ HasWrite(prot) /\ FdTable[fd] = "ro"
    THEN Failed({EACCES})
    ELSE Failed({ENOMEM}) \cup
         {Answer(OK, p * PageSize, <<>>) :
             p \in {q \in UserPages : q + PagesFor(length) - 1 <= MaxPages}}

\* munmap(2)
KernelMunmap(addr, len) ==
    IF ~Aligned(addr) \/ len = 0 \/ addr + len > UserTop THEN Failed({EINVAL})
    ELSE Done \cup Failed({ENOMEM})

\* msync(2)
KernelMsync(addr, len, flags) ==
    IF ~Aligned(addr) \/ flags \notin {MS_ASYNC, MS_SYNC} THEN Failed({EINVAL})
    ELSE IF ~AllMapped(addr, len) THEN Failed({ENOMEM})
    ELSE Done

\* madvise(2)
KernelMadvise(addr, len, advice) ==
    IF ~Aligned(addr) \/ advice \notin {MADV_NORMAL, MADV_RANDOM}
    THEN Failed({EINVAL})
    ELSE IF ~AllMapped(addr, len) THEN Failed({ENOMEM})
    ELSE Done

\* mprotect(2)
KernelMprotect(addr, len, prot) ==
    IF ~Aligned(addr) THEN Failed({EINVAL})
    ELSE IF ~AllMapped(addr, len) THEN Failed({ENOMEM})
    ELSE Done

\* mlock(2): may also be refused for lack of lockable memory.
KernelMlock(addr, len) ==
    IF ~AllMapped(addr, len) THEN Failed({ENOMEM})
    ELSE Done \cup Failed({ENOMEM})

\* munlock(2)
KernelMunlock(addr, len) ==
    IF ~AllMapped(addr, len) THEN Failed({ENOMEM})
    ELSE Done

\* mincore(2): one byte per page of the range, lowest bit set when resident.
KernelMincore(addr, len) ==
    IF ~Aligned(addr) THEN Failed({EINVAL})
    ELSE IF ~AllMapped(addr, len) THEN Failed({ENOMEM})
    ELSE {Answer(OK, 0, v) : v \in [1..PagesFor(len) -> {0, 1}]}

----------------------------------------------------------------------------
(* The package: src/gommap.go.  Each function is an operator from the      *)
(* object it is called on, its arguments and the kernel's answers to its   *)
(* outcome: the object afterwards, the results, the kernel calls issued.   *)

NoMMap == [alloc |-> FALSE, Data |-> NilSlice, internalData |-> NilSlice]

Outcome(m, val, buf, err, calls) ==
    [mmap |-> m, val |-> val, buf |-> buf, err |-> err, calls |-> calls]

\* os.Errno(errno) when the call failed, nil otherwise.
Errno(ans) == IF ans.errno # OK THEN ans.errno ELSE Nil

\* checkSlice without the test of the slice's end.
checkSliceNoEnd(m, region) ==
    IF region.Data < m.internalData.Data THEN ErrRegion ELSE Nil

\* checkSlice refusing a slice that ends where the mapping ends.
checkSliceStrict(m, region) ==
    LET rh == region
        dh == m.internalData
    IN  IF rh.Data < dh.Data
           \/ UintptrOf(rh.Data + UintptrOf(rh.Len))
                >= UintptrOf(dh.Data + UintptrOf(dh.Len))
        THEN ErrRegion
        ELSE Nil

checkSlice(m, region) ==
    LET rh == region
        dh == m.internalData
    IN  IF rh.Data < dh.Data
           \/ UintptrOf(rh.Data + UintptrOf(rh.Len))
                > UintptrOf(dh.Data + UintptrOf(dh.Len))
        THEN ErrRegion
        ELSE Nil

\* The length MapAt maps: the file's size when the caller passes -1.
MapAtLength(length, stat) == IF length = -1 THEN stat.r1 ELSE length

\* MapAt going on to mmap whatever fstat answered.
MapAtFstatIgnored(length, stat) == FALSE

\* Whether MapAt gives up after fstat.
MapAtFstatFailed(length, stat) == length = -1 /\ stat.errno # OK

MapAt(addr, fd, offset, length, prot, flags, stat, ans) ==
    IF MapAtFstatFailed(length, stat)
    THEN Outcome(NoMMap, "nil", <<>>, Errno(stat),
                 <<Syscall("fstat", <<fd>>, stat)>>)
    ELSE
        LET len == MapAtLength(length, stat)
            pre == IF length = -1 THEN <<Syscall("fstat", <<fd>>, stat)>>
                   ELSE <<>>
            call == Syscall("mmap",
                            <<addr, UintptrOf(len), UintptrOf(prot),
                              UintptrOf(flags), UintptrOf(fd),
                              UintptrOf(offset)>>, ans)
            data == SliceHeader(ans.r1, IntOf(len), IntOf(len))
        IN  IF ans.errno # OK
            THEN Outcome(NoMMap, "nil", <<>>, Errno(ans), pre \o <<call>>)
            ELSE Outcome([alloc |-> TRUE, Data |-> data, internalData |-> data],
                         "mmap", <<>>, Nil, pre \o <<call>>)

\* UnsafeUnmapSlice retiring the object when the slice is all of Data.
UnsafeUnmapSliceRetiring(m, region, ans) ==
    IF checkSlice(m, region) # Nil
    THEN Outcome(m, "", <<>>, checkSlice(m, region), <<>>)
    ELSE Outcome(IF region = m.internalData /\ ans.errno = OK
                 THEN [m EXCEPT !.internalData = NilSlice, !.Data = NilSlice]
                 ELSE m,
                 "", <<>>, Errno(ans),
                 <<Syscall("munmap",
                           <<UintptrOf(region.Data), UintptrOf(region.Len), 0>>,
                           ans)>>)

UnsafeUnmapSlice(m, region, ans) ==
    IF checkSlice(m, region) # Nil
    THEN Outcome(m, "", <<>>, checkSlice(m, region), <<>>)
    ELSE Outcome(m, "", <<>>, Errno(ans),
                 <<Syscall("munmap",
                           <<UintptrOf(region.Data), UintptrOf(region.Len), 0>>,
                           ans)>>)

\* UnsafeUnmap leaving the Data field as it was.
UnsafeUnmapKeepsData(m, ans) ==
    LET out == UnsafeUnmapSlice(m, Full(m.Data), ans)
    IN  [out EXCEPT !.mmap = [out.mmap EXCEPT !.internalData = NilSlice]]

\* UnsafeUnmap leaving the object as it was.
UnsafeUnmapKeepsAll(m, ans) == UnsafeUnmapSlice(m, Full(m.Data), ans)

\* UnsafeUnmap retiring the object only when the kernel call succeeded.
UnsafeUnmapClearsOnSuccess(m, ans) ==
    LET out == UnsafeUnmapSlice(m, Full(m.Data), ans)
    IN  IF out.err # Nil THEN out
        ELSE [out EXCEPT !.mmap = [out.mmap EXCEPT !.internalData = NilSlice,
                                                   !.Data = NilSlice]]

UnsafeUnmap(m, ans) ==
    LET out == UnsafeUnmapSlice(m, Full(m.Data), ans)
    IN  [out EXCEPT !.mmap = [out.mmap EXCEPT !.internalData = NilSlice,
                                              !.Data = NilSlice]]

\* SyncSlice passing a length of zero to msync.
SyncSliceNoLen(m, region, flags, ans) ==
    IF checkSlice(m, region) # Nil
    THEN Outcome(m, "", <<>>, checkSlice(m, region), <<>>)
    ELSE Outcome(m, "", <<>>, Errno(ans),
                 <<Syscall("msync",
                           <<UintptrOf(region.Data), 0, UintptrOf(flags)>>,
                           ans)>>)

SyncSlice(m, region, flags, ans) ==
    IF checkSlice(m, region) # Nil
    THEN Outcome(m, "", <<>>, checkSlice(m, region), <<>>)
    ELSE Outcome(m, "", <<>>, Errno(ans),
                 <<Syscall("msync",
                           <<UintptrOf(region.Data), UintptrOf(region.Len),
                             UintptrOf(flags)>>, ans)>>)

\* Sync has no result: what SyncSlice returns is dropped.
Sync(m, flags, ans) ==
    [SyncSlice(m, Full(m.Data), flags, ans) EXCEPT !.err = NoValue]

AdviseSlice(m, region, advice, ans) ==
    IF checkSlice(m, region) # Nil
    THEN Outcome(m, "", <<>>, checkSlice(m, region), <<>>)
    ELSE Outcome(m, "", <<>>, Errno(ans),
                 <<Syscall("madvise",
                           <<UintptrOf(region.Data), UintptrOf(region.Len),
                             UintptrOf(advice)>>, ans)>>)

Advise(m, advice, ans) == AdviseSlice(m, Full(m.Data), advice, ans)

ProtectSlice(m, region, prot, ans) ==
    IF checkSlice(m, region) # Nil
    THEN Outcome(m, "", <<>>, checkSlice(m, region), <<>>)
    ELSE Outcome(m, "", <<>>, Errno(ans),
                 <<Syscall("mprotect",
                           <<UintptrOf(region.Data), UintptrOf(region.Len),
                             UintptrOf(prot)>>, ans)>>)

Protect(m, prot, ans) == ProtectSlice(m, Full(m.Data), prot, ans)

\* LockSlice asking the kernel a second time when it refused.
LockSliceRetrying(m, region, ans) ==
    LET call == Syscall("mlock",
                        <<UintptrOf(region.Data), UintptrOf(region.Len), 0>>,
                        ans)
    IN  IF checkSlice(m, region) # Nil
        THEN Outcome(m, "", <<>>, checkSlice(m, region), <<>>)
        ELSE Outcome(m, "", <<>>, Errno(ans),
                     IF ans.errno # OK THEN <<call, call>> ELSE <<call>>)

LockSlice(m, region, ans) ==
    IF checkSlice(m, region) # Nil
    THEN Outcome(m, "", <<>>, checkSlice(m, region), <<>>)
    ELSE Outcome(m, "", <<>>, Errno(ans),
                 <<Syscall("mlock",
                           <<UintptrOf(region.Data), UintptrOf(region.Len), 0>>,
                           ans)>>)

Lock(m, ans) == LockSlice(m, Full(m.Data), ans)

UnlockSlice(m, region, ans) ==
    IF checkSlice(m, region) # Nil
    THEN Outcome(m, "", <<>>, checkSlice(m, region), <<>>)
    ELSE Outcome(m, "", <<>>, Errno(ans),
                 <<Syscall("munlock",
                           <<UintptrOf(region.Data), UintptrOf(region.Len), 0>>,
                           ans)>>)

Unlock(m, ans) == UnlockSlice(m, Full(m.Data), ans)

\* The result's length rounded down.
InCoreLenFloor(len) == len \div PageSize

\* len(result) in InCoreSlice.
InCoreLen(len) == (len + PageSize - 1) \div PageSize

InCoreSlice(m, region, ans) ==
    IF checkSlice(m, region) # Nil
    THEN Outcome(m, "nil", <<>>, checkSlice(m, region), <<>>)
    ELSE
        LET n == InCoreLen(region.Len)
            result == [i \in 1..n |-> IF i <= Len(ans.vec) THEN ans.vec[i] ELSE 0]
            call == Syscall("mincore",
                            <<UintptrOf(region.Data), UintptrOf(region.Len), n>>,
                            ans)
        IN  IF ans.errno # OK
            THEN Outcome(m, "nil", <<>>, Errno(ans), <<call>>)
            ELSE Outcome(m, "buf", result, Nil, <<call>>)

InCore(m, ans) == InCoreSlice(m, Full(m.Data), ans)

----------------------------------------------------------------------------
(* What the kernel does to the mapping, its memory and the file when a     *)
(* call succeeds.                                                          *)

Shared == kern.flags = MAP_SHARED
\* The page holding byte i of the mapping.
PageAt(i) == PageOf(kern.base + i - 1)

\* The file after the kernel wrote pages ps of the mapping back to it.
Writeback(ps) ==
    [j \in 1..Len(file) |->
        LET i == j - kern.off
        IN  IF i \in 1..Len(mem) /\ PageAt(i) \in ps \cap kern.mapped
            THEN mem[i] ELSE file[j]]

\* The byte offset a mapping call asks for: mmap2 takes it in pages.
OffsetOf(c) == IF c.sys = "mmap2" THEN c.args[6] * PageSize ELSE c.args[6]

KernelAfter(c) ==
    IF c.errno # OK THEN kern
    ELSE IF c.sys \in {"mmap", "mmap2"}
    THEN [mapped |-> PagesOf(c.r1, c.args[2]), base |-> c.r1,
          len |-> c.args[2], off |-> OffsetOf(c), flags |-> c.args[4]]
    ELSE IF c.sys = "munmap"
    THEN [kern EXCEPT !.mapped = @ \ PagesOf(c.args[1], c.args[2])]
    ELSE kern

FileAfter(c) ==
    IF c.errno # OK \/ ~Shared THEN file
    ELSE IF c.sys = "munmap" \/ (c.sys = "msync" /\ c.args[3] = MS_SYNC)
    THEN Writeback(PagesOf(c.args[1], c.args[2]))
    ELSE file

MemAfter(c) ==
    IF c.errno # OK THEN mem
    ELSE IF c.sys \in {"mmap", "mmap2"}
    THEN [i \in 1..c.args[2] |->
            IF OffsetOf(c) + i <= Len(file) THEN file[OffsetOf(c) + i] ELSE 0]
    ELSE IF c.sys = "munmap"
    THEN [i \in 1..Len(mem) |->
            IF PageAt(i) \in PagesOf(c.args[1], c.args[2]) THEN 0 ELSE mem[i]]
    ELSE mem

Args(region, arg) ==
    [region |-> region, arg |-> arg, addr |-> 0, fd |-> 0, offset |-> 0,
     length |-> 0, prot |-> 0, flags |-> 0]
MapArgs(addr, fd, offset, length, prot, flags) ==
    [region |-> NilSlice, arg |-> 0, addr |-> addr, fd |-> fd,
     offset |-> offset, length |-> length, prot |-> prot, flags |-> flags]

NoCall == MapArgs(0, 0, 0, 0, 0, 0) @@ [op |-> "none"]

\* The threads that can be inside UnsafeUnmap, none of them in it yet.
Threads == 1..2
NoThread ==
    [pc |-> "out", region |-> NilSlice, err |-> NoValue, calls |-> <<>>,
     raced |-> FALSE]
NoThreads == [t \in Threads |-> NoThread]
NoResult == [val |-> "", buf |-> <<>>, err |-> NoValue]

\* One call of a function of the package: op names it, a holds its arguments.
\* The caller makes it once it is done with the results of the call before.
Idle == lastOp = NoCall

\* No call came right before the last one.
NoPrev == [op |-> "none", err |-> NoValue]

Call(op, a, out) ==
    /\ mmap' = out.mmap
    /\ ret' = [val |-> out.val, buf |-> out.buf, err |-> out.err]
    /\ kcalls' = out.calls
    /\ lastOp' = a @@ [op |-> op]
    /\ IF out.calls = <<>>
       THEN UNCHANGED <<kern, file, mem>>
       ELSE LET c == out.calls[Len(out.calls)]
            IN  /\ kern' = KernelAfter(c)
                /\ file' = FileAfter(c)
                /\ mem' = MemAfter(c)
    /\ mapFlags' = IF out.val = "mmap" THEN a.flags ELSE mapFlags
    /\ prev' = IF Idle THEN NoPrev ELSE [op |-> lastOp.op, err |-> ret.err]
    /\ UNCHANGED <<nwrites, arch, thr>>

\* The arguments callers pass.
AddrHints == {0, PageSize}
Offsets == 0..PageSize
Lengths == -1..MaxLen
Prots == {PROT_READ, PROT_READ + PROT_WRITE}
MapFlags == {MAP_SHARED, MAP_PRIVATE}
SyncFlags == {MS_ASYNC, MS_SYNC, MS_ASYNC + MS_SYNC}
Advices == {MADV_NORMAL, MADV_RANDOM, BadAdvice}

----------------------------------------------------------------------------
(* Actions: one per exported function.                                     *)

CallMapAt ==
    /\ Idle
    /\ ~mmap.alloc
    /\ \E addr \in AddrHints, fd \in Fds, offset \in Offsets,
          length \in Lengths, prot \in Prots, flags \in MapFlags :
        \E stat \in KernelFstat(fd) :
        \E ans \in KernelMmap(addr, MapAtLength(length, stat), prot, flags,
                              fd, offset) :
            Call("MapAt", MapArgs(addr, fd, offset, length, prot, flags),
                 MapAt(addr, fd, offset, length, prot, flags, stat, ans))

CallMap ==
    /\ Idle
    /\ ~mmap.alloc
    /\ \E fd \in Fds, prot \in Prots, flags \in MapFlags :
        \E stat \in KernelFstat(fd) :
        \E ans \in KernelMmap(0, MapAtLength(-1, stat), prot, flags, fd, 0) :
            Call("Map", MapArgs(0, fd, 0, -1, prot, flags),
                 MapAt(0, fd, 0, -1, prot, flags, stat, ans))

CallMapRegion ==
    /\ Idle
    /\ ~mmap.alloc
    /\ \E fd \in Fds, offset \in Offsets, length \in Lengths,
          prot \in Prots, flags \in MapFlags :
        \E stat \in KernelFstat(fd) :
        \E ans \in KernelMmap(0, MapAtLength(length, stat), prot, flags,
                              fd, offset) :
            Call("MapRegion", MapArgs(0, fd, offset, length, prot, flags),
                 MapAt(0, fd, offset, length, prot, flags, stat, ans))

CallUnsafeUnmap ==
    /\ Idle
    /\ mmap.alloc
    /\ \E ans \in KernelMunmap(mmap.Data.Data, mmap.Data.Len) :
        Call("UnsafeUnmap", Args(Full(mmap.Data), 0), UnsafeUnmap(mmap, ans))

CallUnsafeUnmapSlice ==
    /\ Idle
    /\ mmap.alloc
    /\ \E region \in Slices :
        \E ans \in KernelMunmap(region.Data, region.Len) :
            Call("UnsafeUnmapSlice", Args(region, 0),
                 UnsafeUnmapSlice(mmap, region, ans))

CallSync ==
    /\ Idle
    /\ mmap.alloc
    /\ \E flags \in SyncFlags :
        \E ans \in KernelMsync(mmap.Data.Data, mmap.Data.Len, flags) :
            Call("Sync", Args(Full(mmap.Data), flags), Sync(mmap, flags, ans))

CallSyncSlice ==
    /\ Idle
    /\ mmap.alloc
    /\ \E region \in Slices, flags \in SyncFlags :
        \E ans \in KernelMsync(region.Data, region.Len, flags) :
            Call("SyncSlice", Args(region, flags),
                 SyncSlice(mmap, region, flags, ans))

CallAdvise ==
    /\ Idle
    /\ mmap.alloc
    /\ \E advice \in Advices :
        \E ans \in KernelMadvise(mmap.Data.Data, mmap.Data.Len, advice) :
            Call("Advise", Args(Full(mmap.Data), advice),
                 Advise(mmap, advice, ans))

CallAdviseSlice ==
    /\ Idle
    /\ mmap.alloc
    /\ \E region \in Slices, advice \in Advices :
        \E ans \in KernelMadvise(region.Data, region.Len, advice) :
            Call("AdviseSlice", Args(region, advice),
                 AdviseSlice(mmap, region, advice, ans))

CallProtect ==
    /\ Idle
    /\ mmap.alloc
    /\ \E prot \in Prots :
        \E ans \in KernelMprotect(mmap.Data.Data, mmap.Data.Len, prot) :
            Call("Protect", Args(Full(mmap.Data), prot),
                 Protect(mmap, prot, ans))

CallProtectSlice ==
    /\ Idle
    /\ mmap.alloc
    /\ \E region \in Slices, prot \in Prots :
        \E ans \in KernelMprotect(region.Data, region.Len, prot) :
            Call("ProtectSlice", Args(region, prot),
                 ProtectSlice(mmap, region, prot, ans))

CallLock ==
    /\ Idle
    /\ mmap.alloc
    /\ \E ans \in KernelMlock(mmap.Data.Data, mmap.Data.Len) :
        Call("Lock", Args(Full(mmap.Data), 0), Lock(mmap, ans))

CallLockSlice ==
    /\ Idle
    /\ mmap.alloc
    /\ \E region \in Slices :
        \E ans \in KernelMlock(region.Data, region.Len) :
            Call("LockSlice", Args(region, 0), LockSlice(mmap, region, ans))

CallUnlock ==
    /\ Idle
    /\ mmap.alloc
    /\ \E ans \in KernelMunlock(mmap.Data.Data, mmap.Data.Len) :
        Call("Unlock", Args(Full(mmap.Data), 0), Unlock(mmap, ans))

CallUnlockSlice ==
    /\ Idle
    /\ mmap.alloc
    /\ \E region \in Slices :
        \E ans \in KernelMunlock(region.Data, region.Len) :
            Call("UnlockSlice", Args(region, 0),
                 UnlockSlice(mmap, region, ans))

CallInCore ==
    /\ Idle
    /\ mmap.alloc
    /\ \E ans \in KernelMincore(mmap.Data.Data, mmap.Data.Len) :
        Call("InCore", Args(Full(mmap.Data), 0), InCore(mmap, ans))

CallInCoreSlice ==
    /\ Idle
    /\ mmap.alloc
    /\ \E region \in Slices :
        \E ans \in KernelMincore(region.Data, region.Len) :
            Call("InCoreSlice", Args(region, 0),
                 InCoreSlice(mmap, region, ans))

\* The caller is done with the results of the last call.
Return ==
    /\ ~Idle
    /\ lastOp' = NoCall
    /\ kcalls' = <<>>
    /\ ret' = NoResult
    /\ prev' = NoPrev
    /\ UNCHANGED <<mmap, kern, file, mem, mapFlags, nwrites, arch, thr>>

\* The package is built for one of the given architectures and the file is
\* one of the given sizes; nothing is mapped, no call was made.
InitOn(archs, sizes) ==
    /\ arch \in archs
    /\ mmap = NoMMap
    /\ kern = NoMapping
    /\ file \in {[i \in 1..n |-> 0] : n \in sizes}
    /\ mem = <<>>
    /\ mapFlags = 0
    /\ lastOp = NoCall
    /\ kcalls = <<>>
    /\ ret = NoResult
    /\ nwrites = 0
    /\ prev = NoPrev
    /\ thr = NoThreads

\* The build gommap.go makes its mmap call for: SYS_MMAP with six arguments.
InitWith(sizes) == InitOn({"amd64"}, sizes)

Init == InitWith(0..MaxLen)

Next ==
    \/ CallMapAt
    \/ CallMap
    \/ CallMapRegion
    \/ CallUnlock
    \/ CallUnlockSlice
    \/ CallLock
    \/ CallLockSlice
    \/ CallSync
    \/ CallSyncSlice
    \/ CallAdvise
    \/ CallAdviseSlice
    \/ CallProtect
    \/ CallProtectSlice
    \/ CallInCore
    \/ CallInCoreSlice
    \/ CallUnsafeUnmapSlice
    \/ CallUnsafeUnmap
    \/ Return

Spec == Init /\ [][Next]_vars

----------------------------------------------------------------------------
(* The content of the mapping.  The caller stores through mmap.Data, the   *)
(* kernel writes the pages of a shared mapping back to the file when it    *)
(* pleases, and at the latest when msync(MS_SYNC) or munmap returns.       *)
(* Protection is not tracked: a store is taken to be one the hardware      *)
(* lets through.                                                           *)

ByteVals == 0..1

\* Byte i of the mapping is in a mapped page that has file content behind it.
Addressable(i) ==
    /\ PageAt(i) \in kern.mapped
    /\ kern.off + (PageAt(i) * PageSize - kern.base) < Len(file)

\* mmap.Data[i-1] = v
Store ==
    /\ Idle
    /\ mmap.alloc
    /\ nwrites < MaxWrites
    /\ \E i \in 1..mmap.Data.Len, v \in ByteVals :
        /\ Addressable(i)
        /\ mem' = [mem EXCEPT ![i] = v]
    /\ nwrites' = nwrites + 1
    /\ UNCHANGED <<mmap, kern, file, mapFlags, lastOp, kcalls, ret, arch, prev,
                   thr>>

\* The kernel writes a dirty page of a shared mapping back on its own.
KernelWriteback ==
    /\ Idle
    /\ Shared
    /\ \E p \in kern.mapped :
        /\ file' = Writeback({p})
        /\ file' # file
    /\ UNCHANGED <<mmap, kern, mem, mapFlags, lastOp, kcalls, ret, nwrites,
                   arch, prev, thr>>

NextData ==
    \/ CallMapAt
    \/ CallMap
    \/ CallMapRegion
    \/ Store
    \/ KernelWriteback
    \/ CallSync
    \/ CallSyncSlice
    \/ CallUnsafeUnmapSlice
    \/ CallUnsafeUnmap
    \/ Return

\* A file that ends inside a page, and one that fills its pages.
InitData == InitWith({PageSize + 1, MaxLen})

SpecData == InitData /\ [][NextData]_vars

----------------------------------------------------------------------------
(* The builds.  The Makefile compiles gommap.go with the file             *)
(* mmap_$(GOOS)_$(GOARCH).go, whose mmap_syscall makes the mapping call    *)
(* the way the architecture wants it.  On amd64 that is the call MapAt     *)
(* makes in gommap.go.  On 386 a word is narrower than an int64, the call  *)
(* is mmap2, and user memory reaches past the middle of the address space. *)

Archs == {"amd64", "386"}

\* The top of user memory: one page more than AddrSpace / 2 on 386.
UserTopOn(a) == IF a = "386" THEN PageSize * (MaxPages + 2) ELSE UserTop

\* Go's x / y on integers: the quotient truncated towards zero.
Quo(x, y) == IF x >= 0 THEN x \div y ELSE -((-x) \div y)

\* mmap(2) and mmap2(2) on architecture a, for a byte offset as the kernel
\* reads it: any free page-aligned window of user memory, or a refusal.
KernelMmapOn(a, addr, length, prot, flags, fd, offset) ==
    IF FdTable[fd] = "closed" THEN Failed({EBADF})
    ELSE IF length = 0 \/ ~Aligned(offset) \/ offset >= AddrSpace \div 2
    THEN Failed({EINVAL})
    ELSE IF flags = MAP_SHARED /\ HasWrite(prot) /\ FdTable[fd] = "ro"
    THEN Failed({EACCES})
    ELSE Failed({ENOMEM}) \cup
         {Answer(OK, p * PageSize, <<>>) :
             p \in {q \in 1..(UserTopOn(a) \div PageSize - 1) :
                       (q + PagesFor(length)) * PageSize <= UserTopOn(a)}}

\* What mmap_syscall returns, and the kernel call it issued.
Adapted(addr, errno, calls) == [addr |-> addr, errno |-> errno, calls |-> calls]

\* mmap_linux_amd64.go
mmap_syscall_amd64(addr, length, prot, flags, fd, offset, ans) ==
    Adapted(ans.r1, ans.errno,
            <<Syscall("mmap", <<addr, length, prot, flags, fd,
                                UintptrOf(offset)>>, ans)>>)

\* The adapter for mmap2 issuing the call for every offset, rounded down.
mmap_syscall_386_unchecked(addr, length, prot, flags, fd, offset, ans) ==
    Adapted(ans.r1, ans.errno,
            <<Syscall("mmap2", <<addr, length, prot, flags, fd,
                                 UintptrOf(Quo(offset, PageSize))>>, ans)>>)

\* The adapter for mmap2 (386, arm).  Its 4096 is the page size.
mmap_syscall_386(addr, length, prot, flags, fd, offset, ans) ==
    LET page == UintptrOf(Quo(offset, PageSize))
    IN  IF offset # page * PageSize
        THEN Adapted(0, EINVAL, <<>>)
        ELSE Adapted(ans.r1, ans.errno,
                     <<Syscall("mmap2", <<addr, length, prot, flags, fd, page>>,
                               ans)>>)

mmap_syscall(a, addr, length, prot, flags, fd, offset, ans) ==
    IF a = "386"
    THEN mmap_syscall_386(addr, length, prot, flags, fd, offset, ans)
    ELSE mmap_syscall_amd64(addr, length, prot, flags, fd, offset, ans)

\* The byte offset the kernel reads from the call mmap_syscall makes.
KernelOffset(a, offset) ==
    IF a = "386" THEN UintptrOf(Quo(offset, PageSize)) * PageSize
    ELSE UintptrOf(offset)

\* MapAt making its mapping call through mmap_syscall.
MapAtOn(a, addr, fd, offset, length, prot, flags, stat, ans) ==
    IF MapAtFstatFailed(length, stat)
    THEN Outcome(NoMMap, "nil", <<>>, Errno(stat),
                 <<Syscall("fstat", <<fd>>, stat)>>)
    ELSE
        LET len == MapAtLength(length, stat)
            pre == IF length = -1 THEN <<Syscall("fstat", <<fd>>, stat)>>
                   ELSE <<>>
            sys == mmap_syscall(a, addr, UintptrOf(len), UintptrOf(prot),
                                UintptrOf(flags), UintptrOf(fd), offset, ans)
            data == SliceHeader(sys.addr, IntOf(len), IntOf(len))
        IN  IF sys.errno # OK
            THEN Outcome(NoMMap, "nil", <<>>, sys.errno, pre \o sys.calls)
            ELSE Outcome([alloc |-> TRUE, Data |-> data, internalData |-> data],
                         "mmap", <<>>, Nil, pre \o sys.calls)

\* The int64 values callers pass: around zero, around the first page count
\* that does not fit a word, around the first length that does not fit an int.
OffsetsOn(a) ==
    IF a = "386"
    THEN (-(2 * PageSize)..(2 * PageSize))
         \cup ((AddrSpace * PageSize - PageSize)..(AddrSpace * PageSize + PageSize))
    ELSE -PageSize..(2 * PageSize)
LengthsOn(a) ==
    IF a = "386"
    THEN (-2..(AddrSpace \div 2)) \cup {AddrSpace + PageSize}
    ELSE -2..MaxLen

\* mmap_syscall called as MapAt calls it, its results taken as they are.
CallMmapSyscall ==
    /\ Idle
    /\ kern = NoMapping
    /\ \E addr \in AddrHints, fd \in Fds, offset \in OffsetsOn(arch),
          length \in 0..MaxLen, prot \in Prots, flags \in MapFlags :
        \E ans \in KernelMmapOn(arch, addr, length, prot, flags, fd,
                                KernelOffset(arch, offset)) :
            LET sys == mmap_syscall(arch, addr, length, prot, flags, fd,
                                    offset, ans)
            IN  Call("mmap_syscall",
                     MapArgs(addr, fd, offset, length, prot, flags),
                     Outcome(mmap, "addr", <<sys.addr>>, sys.errno, sys.calls))

CallMapAtOn ==
    /\ Idle
    /\ ~mmap.alloc
    /\ kern = NoMapping
    /\ \E addr \in AddrHints, fd \in Fds, offset \in OffsetsOn(arch),
          length \in LengthsOn(arch), prot \in Prots, flags \in MapFlags :
        \E stat \in KernelFstat(fd) :
        \E ans \in KernelMmapOn(arch, addr,
                                UintptrOf(MapAtLength(length, stat)), prot,
                                flags, fd, KernelOffset(arch, offset)) :
            Call("MapAt", MapArgs(addr, fd, offset, length, prot, flags),
                 MapAtOn(arch, addr, fd, offset, length, prot, flags, stat,
                         ans))

NextBuilds ==
    \/ CallMmapSyscall
    \/ CallMapAtOn
    \/ Return

InitBuilds == InitOn(Archs, {0, MaxLen})

SpecBuilds == InitBuilds /\ [][NextBuilds]_vars

----------------------------------------------------------------------------
(* Calls made back to back, as TestLock makes them: Lock right after Lock  *)
(* and Unlock right after Unlock.                                          *)

CallLockAgain ==
    /\ lastOp.op = "Lock"
    /\ mmap.alloc
    /\ \E ans \in KernelMlock(mmap.Data.Data, mmap.Data.Len) :
        Call("Lock", Args(Full(mmap.Data), 0), Lock(mmap, ans))

CallUnlockAgain ==
    /\ lastOp.op = "Unlock"
    /\ mmap.alloc
    /\ \E ans \in KernelMunlock(mmap.Data.Data, mmap.Data.Len) :
        Call("Unlock", Args(Full(mmap.Data), 0), Unlock(mmap, ans))

NextRepeat ==
    \/ Next
    \/ CallLockAgain
    \/ CallUnlockAgain

SpecRepeat == Init /\ [][NextRepeat]_vars

----------------------------------------------------------------------------
(* UnsafeUnmap called from two threads.  Nothing in the package orders the *)
(* calls, so each statement of UnsafeUnmap and UnsafeUnmapSlice is a step  *)
(* of its own: pc names the statement a thread is about to execute.  A     *)
(* slice header read while another thread is storing nil into it is a data *)
(* race: the reader may get any mix of the old and the new words.          *)

\* UnsafeUnmap retiring nothing.
UnsafeUnmapClearNothing(m, field) == m

\* mmap.internalData = nil; mmap.Data = nil
UnsafeUnmapClear(m, field) ==
    IF field = "internalData" THEN [m EXCEPT !.internalData = NilSlice]
    ELSE [m EXCEPT !.Data = NilSlice]

\* What a read of slice header s can give.
Seen(s, torn) ==
    IF torn
    THEN {SliceHeader(d, l, c) :
            d \in {s.Data, 0}, l \in {s.Len, 0}, c \in {s.Cap, 0}}
    ELSE {s}

Inside(t) == thr[t].pc \notin {"out", "done"}
Storing(field) == \E u \in Threads : thr[u].pc = field

Step(t, next) == thr' = [thr EXCEPT ![t] = next]

\* A thread calls mmap.UnsafeUnmap().
UnmapEnter(t) ==
    /\ Idle
    /\ mmap.alloc
    /\ thr[t].pc = "out"
    /\ Step(t, [thr[t] EXCEPT !.pc = "slice",
                               !.raced = \E u \in Threads \ {t} : Inside(u)])
    /\ UNCHANGED <<mmap, kern, file, mem, mapFlags, lastOp, kcalls, ret,
                   nwrites, arch, prev>>

\* mmap.Data[:]
UnmapSlice(t) ==
    /\ thr[t].pc = "slice"
    /\ \E region \in Seen(Full(mmap.Data), Storing("Data")) :
        Step(t, [thr[t] EXCEPT !.pc = "check", !.region = region])
    /\ UNCHANGED <<mmap, kern, file, mem, mapFlags, lastOp, kcalls, ret,
                   nwrites, arch, prev>>

\* mmap.checkSlice(region)
UnmapCheck(t) ==
    /\ thr[t].pc = "check"
    /\ \E dh \in Seen(mmap.internalData, Storing("internalData")) :
        LET err == checkSlice([mmap EXCEPT !.internalData = dh], thr[t].region)
        IN  Step(t, IF err # Nil
                    THEN [thr[t] EXCEPT !.pc = "internalData", !.err = err]
                    ELSE [thr[t] EXCEPT !.pc = "munmap"])
    /\ UNCHANGED <<mmap, kern, file, mem, mapFlags, lastOp, kcalls, ret,
                   nwrites, arch, prev>>

\* syscall.Syscall(syscall.SYS_MUNMAP, ...)
UnmapKernel(t) ==
    /\ thr[t].pc = "munmap"
    /\ \E ans \in KernelMunmap(thr[t].region.Data, thr[t].region.Len) :
        LET c == Syscall("munmap",
                         <<UintptrOf(thr[t].region.Data),
                           UintptrOf(thr[t].region.Len), 0>>, ans)
        IN  /\ Step(t, [thr[t] EXCEPT !.pc = "internalData",
                                       !.err = Errno(ans), !.calls = <<c>>])
            /\ kern' = KernelAfter(c)
            /\ file' = FileAfter(c)
            /\ mem' = MemAfter(c)
    /\ UNCHANGED <<mmap, mapFlags, lastOp, kcalls, ret, nwrites, arch, prev>>

\* mmap.internalData = nil, then mmap.Data = nil
UnmapClear(t) ==
    /\ thr[t].pc \in {"internalData", "Data"}
    /\ mmap' = UnsafeUnmapClear(mmap, thr[t].pc)
    /\ Step(t, [thr[t] EXCEPT
                   !.pc = IF thr[t].pc = "internalData" THEN "Data"
                          ELSE "return"])
    /\ UNCHANGED <<kern, file, mem, mapFlags, lastOp, kcalls, ret, nwrites,
                   arch, prev>>

\* return err
UnmapReturn(t) ==
    /\ thr[t].pc = "return"
    /\ Step(t, [thr[t] EXCEPT !.pc = "done"])
    /\ UNCHANGED <<mmap, kern, file, mem, mapFlags, lastOp, kcalls, ret,
                   nwrites, arch, prev>>

Enter == \E t \in Threads : UnmapEnter(t)
ReadData == \E t \in Threads : UnmapSlice(t)
Check == \E t \in Threads : UnmapCheck(t)
Munmap == \E t \in Threads : UnmapKernel(t)
Clear == \E t \in Threads : UnmapClear(t)
Leave == \E t \in Threads : UnmapReturn(t)

NextRace ==
    \/ CallMap
    \/ CallMapRegion
    \/ Return
    \/ Enter
    \/ ReadData
    \/ Check
    \/ Munmap
    \/ Clear
    \/ Leave

SpecRace == Init /\ [][NextRace]_vars

----------------------------------------------------------------------------
(* Properties.                                                             *)

ScopedOps ==
    {"UnsafeUnmapSlice", "SyncSlice", "AdviseSlice", "ProtectSlice",
     "LockSlice", "UnlockSlice", "InCoreSlice"}
MapOps == {"MapAt", "Map", "MapRegion"}

\* The object has been created and not retired.
Live == mmap.alloc /\ mmap.internalData.Data # 0
\* The object has been retired by UnsafeUnmap.
Retired == mmap.alloc /\ mmap.internalData = NilSlice
\* [region.Data, region.Data + region.Len) lies within the original mapping.
Contained(region) ==
    /\ region.Data >= mmap.internalData.Data
    /\ region.Data + region.Len <= mmap.internalData.Data + mmap.internalData.Len
\* The last kernel call of the last call failed.
KernelFailed == kcalls # <<>> /\ kcalls[Len(kcalls)].errno # OK
\* The kernel still maps every page of the window it mapped for the region.
WholeMapped == kern.len > 0 /\ PagesOf(kern.base, kern.len) \subseteq kern.mapped

\* C1: on a live region, a scoped operation given a slice that is not fully
\* inside the original mapping returns the containment error and issues no
\* kernel call.
C1_OutsideSliceRejected ==
    (lastOp.op \in ScopedOps /\ Live /\ ~Contained(lastOp.region))
        => (ret.err = ErrRegion /\ kcalls = <<>>)

\* A slice that starts inside the mapping and ends past it was refused.
C1_Witness ==
    /\ lastOp.op = "InCoreSlice"
    /\ Live
    /\ lastOp.region.Data > mmap.internalData.Data
    /\ lastOp.region.Data < mmap.internalData.Data + mmap.internalData.Len
    /\ ~Contained(lastOp.region)
    /\ ret.err = ErrRegion

\* C2: once the region has been retired by UnsafeUnmap, every further call on
\* it returns an error and issues no kernel call.
C2_RetiredFailsFast ==
    [][(Retired /\ lastOp' # NoCall)
          => (ret'.err \notin {Nil, NoValue} /\ kcalls' = <<>>)]_vars

\* C3: after UnsafeUnmap on a live region returns nil, Data is nil and the
\* internal bookkeeping is cleared.
C3_UnmapRetires ==
    (lastOp.op = "UnsafeUnmap" /\ lastOp.region.Data # 0 /\ ret.err = Nil)
        => (mmap.Data = NilSlice /\ mmap.internalData = NilSlice /\ ~Live)

\* UnsafeUnmap of a live region succeeded.
C3_Witness ==
    /\ lastOp.op = "UnsafeUnmap"
    /\ lastOp.region.Len > 0
    /\ ret.err = Nil
    /\ kern.mapped = {}

\* C4: no scoped operation changes the recorded base address, length or
\* liveness of the region, whether it succeeds or fails.
C4_ScopedKeepsBookkeeping ==
    [][lastOp'.op \in ScopedOps
          => (mmap'.internalData = mmap.internalData /\ mmap'.alloc = mmap.alloc
              /\ mmap'.Data = mmap.Data)]_vars

\* UnsafeUnmapSlice unmapped all of Data and the object is still live.
C4_Witness ==
    /\ lastOp.op = "UnsafeUnmapSlice"
    /\ ret.err = Nil
    /\ lastOp.region = mmap.internalData
    /\ Live
    /\ kern.mapped = {}

\* C5: whenever the kernel call of an operation fails, the operation returns
\* an error equal to the kernel's error code.
C5_KernelFailureReturned ==
    KernelFailed => ret.err = kcalls[Len(kcalls)].errno

\* C6: MapAt, Map and MapRegion return a region only when every kernel call
\* succeeded; with length -1 a failed fstat is returned with a nil region and
\* no mmap call; a failed mmap is returned with a nil region.
C6_MapFailsWithNilRegion ==
    lastOp.op \in MapOps =>
        /\ kcalls # <<>>
        /\ lastOp.length = -1 => kcalls[1].sys = "fstat"
        /\ ret.val = "mmap" =>
            /\ \A i \in 1..Len(kcalls) : kcalls[i].errno = OK
            /\ ret.err = Nil
            /\ Live
        /\ (kcalls[1].sys = "fstat" /\ kcalls[1].errno # OK) =>
            /\ Len(kcalls) = 1
            /\ ret.val = "nil"
            /\ ret.err = kcalls[1].errno
            /\ ~mmap.alloc
        /\ KernelFailed =>
            /\ ret.val = "nil"
            /\ ret.err = kcalls[Len(kcalls)].errno
            /\ ~mmap.alloc /\ kern = NoMapping

\* Map of a read-only descriptor with write protection failed with EACCES.
C6_Witness ==
    /\ lastOp.op = "Map"
    /\ FdTable[lastOp.fd] = "ro"
    /\ HasWrite(lastOp.prot)
    /\ Len(kcalls) = 2
    /\ ret.err = EACCES
    /\ ret.val = "nil"

\* C7: with length -1 and offset o on a file of size s, 0 <= o <= s, the
\* region MapRegion and MapAt return has length s - o.
C7_MapsToEndOfFile ==
    (lastOp.op \in {"MapAt", "MapRegion"} /\ lastOp.length = -1
     /\ lastOp.offset <= Len(file) /\ ret.val = "mmap")
        => mmap.Data.Len = Len(file) - lastOp.offset

\* After a synchronous flush of a slice of a shared mapping, the file holds
\* every byte of the slice that lies within the file.
FlushedToFile ==
    (lastOp.op \in {"Sync", "SyncSlice"} /\ lastOp.arg = MS_SYNC
     /\ kcalls # <<>> /\ ~KernelFailed /\ mapFlags = MAP_SHARED /\ Live)
        => \A i \in 1..Len(mem) :
              (/\ kern.base + i - 1 >= lastOp.region.Data
               /\ kern.base + i - 1 < lastOp.region.Data + lastOp.region.Len
               /\ kern.off + i <= Len(file))
                  => file[kern.off + i] = mem[i]

\* C8: with the shared flag, a byte stored through the buffer and then
\* flushed synchronously is read back from the file; with the private flag,
\* no store and no flush ever changes the file.
C8_SharedFlushedPrivateNever ==
    /\ []FlushedToFile
    /\ [][mapFlags = MAP_PRIVATE => file' = file]_vars

\* A stored byte reached the file by Sync(MS_SYNC) on a shared mapping.
C8_Witness ==
    /\ lastOp.op = "Sync"
    /\ lastOp.arg = MS_SYNC
    /\ ~KernelFailed
    /\ mapFlags = MAP_SHARED
    /\ nwrites = 1
    /\ \E i \in 1..Len(mem) :
          mem[i] = 1 /\ kern.off + i <= Len(file) /\ file[kern.off + i] = 1

\* C9: a successful InCoreSlice or InCore of a slice of L bytes returns
\* ceil(L / PageSize) bytes: one for 1..PageSize bytes, two for 2*PageSize.
C9_InCoreOneBytePerPage ==
    (lastOp.op \in {"InCore", "InCoreSlice"} /\ ret.err = Nil) =>
        LET L == lastOp.region.Len
            n == Len(ret.buf)
        IN  /\ ret.val = "buf"
            /\ n * PageSize >= L
            /\ (n - 1) * PageSize < L
            /\ L \in 1..PageSize => n = 1
            /\ L = 2 * PageSize => n = 2

\* InCore of a region that ends inside its second page returned two bytes.
C9_Witness ==
    /\ lastOp.op = "InCore"
    /\ ret.err = Nil
    /\ lastOp.region.Len = PageSize + 1
    /\ Len(ret.buf) = 2

\* The region is live exactly when the kernel maps its whole window.
LiveIffMapped == Live <=> WholeMapped

\* C10 as stated: in every reachable state the region is live iff the kernel
\* mapping over the whole of its window still exists.
C10_LiveIffMapped == LiveIffMapped

\* C10 as amended: the region is live iff the kernel maps its whole window,
\* initially and after every call except the two that break it: an
\* UnsafeUnmapSlice that succeeds (pages are gone, the object stays live) and
\* an UnsafeUnmap whose kernel call fails (the object is retired, the mapping
\* stays).
C10_OnlyUnmapBreaksLiveIffMapped ==
    [][(LiveIffMapped /\ ~LiveIffMapped')
          => \/ (lastOp'.op = "UnsafeUnmapSlice" /\ ret'.err = Nil /\ Live')
             \/ (lastOp'.op = "UnsafeUnmap" /\ ret'.err # Nil /\ ~Live')]_vars

\* A successful UnsafeUnmapSlice left a live region with a page unmapped.
C10_Witness ==
    /\ lastOp.op = "UnsafeUnmapSlice"
    /\ ret.err = Nil
    /\ Live
    /\ ~WholeMapped
    /\ kern.mapped # {}

\* C11: on a successful MapAt, Data and the internal bookkeeping both start at
\* the address the kernel returned and have length and capacity equal to the
\* length passed to the mapping call, whatever int64 length the caller gave.
C11_RegionIsKernelWindow ==
    (lastOp.op = "MapAt" /\ ret.val = "mmap") =>
        LET c == kcalls[Len(kcalls)]
        IN  /\ mmap.Data.Data = c.r1
            /\ mmap.Data.Len = c.args[2]
            /\ mmap.Data.Cap = c.args[2]
            /\ mmap.internalData = mmap.Data

\* mmap_syscall issued a kernel call.
Issued == kcalls # <<>>
\* The call mmap_syscall issued carries the caller's arguments, with the
\* given offset argument, and its answer is what mmap_syscall returned.
Forwarded(sys, off) ==
    /\ Len(kcalls) = 1
    /\ kcalls[1].sys = sys
    /\ kcalls[1].args = <<lastOp.addr, lastOp.length, lastOp.prot,
                          lastOp.flags, lastOp.fd, off>>
    /\ ret.err = kcalls[1].errno
    /\ ret.buf = <<kcalls[1].r1>>
\* mmap_syscall returned the alignment error and address 0.
AlignmentError == ret.err = EINVAL /\ ret.buf = <<0>>

\* C13 as stated: the mmap2 adapter issues the call exactly when the byte
\* offset is a multiple of the page size, passing offset / page size, and
\* otherwise returns EINVAL with address 0 and issues no call; the amd64
\* adapter always issues the call, with the byte offset.
C13_CallIffMultiple ==
    lastOp.op = "mmap_syscall" =>
        IF arch = "386"
        THEN /\ Issued <=> lastOp.offset % PageSize = 0
             /\ Issued => Forwarded("mmap2", lastOp.offset \div PageSize)
             /\ ~Issued => AlignmentError
        ELSE Forwarded("mmap", UintptrOf(lastOp.offset))

\* C13 as amended: the mmap2 adapter issues the call exactly when the byte
\* offset is a multiple of the page size that is not negative and whose page
\* count fits a word; every other offset gets EINVAL, address 0 and no call.
C13_CallIffPageCountFits ==
    lastOp.op = "mmap_syscall" =>
        IF arch = "386"
        THEN /\ Issued <=> (/\ lastOp.offset % PageSize = 0
                            /\ lastOp.offset >= 0
                            /\ lastOp.offset \div PageSize < AddrSpace)
             /\ Issued => Forwarded("mmap2", lastOp.offset \div PageSize)
             /\ ~Issued => AlignmentError
        ELSE Forwarded("mmap", UintptrOf(lastOp.offset))

\* The mmap2 adapter mapped a file from its second page on.
C13_Witness ==
    /\ lastOp.op = "mmap_syscall"
    /\ arch = "386"
    /\ lastOp.offset = PageSize
    /\ Issued
    /\ kcalls[1].args[6] = 1
    /\ ret.err = OK
    /\ kern.off = PageSize

\* C12: on a live region the bounds check accepts a slice exactly when it
\* starts at or after the base address and ends at or before the end of the
\* mapping, and the operation of an accepted slice issues its kernel call
\* with the slice's address and length.
C12_AcceptedIffContained ==
    (lastOp.op \in ScopedOps /\ Live) =>
        /\ ret.err # ErrRegion <=> Contained(lastOp.region)
        /\ ret.err = ErrRegion => kcalls = <<>>
        /\ ret.err # ErrRegion =>
            /\ Len(kcalls) = 1
            /\ kcalls[1].args[1] = lastOp.region.Data
            /\ kcalls[1].args[2] = lastOp.region.Len

\* SyncSlice of the last page of a longer mapping flushed that page only.
C12_Witness ==
    /\ lastOp.op = "SyncSlice"
    /\ Live
    /\ lastOp.region.Data > mmap.internalData.Data
    /\ lastOp.region.Data + lastOp.region.Len
         = mmap.internalData.Data + mmap.internalData.Len
    /\ lastOp.region.Len > 0
    /\ ret.err = Nil
    /\ kcalls[1].sys = "msync"
    /\ kcalls[1].args[1] = lastOp.region.Data
    /\ kcalls[1].args[2] = lastOp.region.Len

\* The operations on a region, and the kernel call each forwards to.
RegionOps ==
    ScopedOps \cup {"UnsafeUnmap", "Sync", "Advise", "Protect", "Lock",
                    "Unlock", "InCore"}
KernelCallOf(op) ==
    IF op \in {"UnsafeUnmap", "UnsafeUnmapSlice"} THEN "munmap"
    ELSE IF op \in {"Sync", "SyncSlice"} THEN "msync"
    ELSE IF op \in {"Advise", "AdviseSlice"} THEN "madvise"
    ELSE IF op \in {"Protect", "ProtectSlice"} THEN "mprotect"
    ELSE IF op \in {"Lock", "LockSlice"} THEN "mlock"
    ELSE IF op \in {"Unlock", "UnlockSlice"} THEN "munlock"
    ELSE "mincore"
\* The last call got past the bounds check.
Validated == ret.err # ErrRegion

\* C14: every call that passes validation issues exactly one kernel call
\* (creation with length -1: one fstat, then at most one mmap), also when the
\* kernel refuses, and whatever call came before: Lock right after Lock and
\* Unlock right after Unlock go to the kernel again and return its answer.
C14_OneKernelCallEach ==
    /\ lastOp.op \in MapOps =>
        IF lastOp.length = -1
        THEN /\ Len(kcalls) \in 1..2
             /\ kcalls[1].sys = "fstat"
             /\ Len(kcalls) = 2 => kcalls[2].sys = "mmap"
        ELSE Len(kcalls) = 1 /\ kcalls[1].sys = "mmap"
    /\ (lastOp.op \in RegionOps /\ Validated) =>
        /\ Len(kcalls) = 1
        /\ kcalls[1].sys = KernelCallOf(lastOp.op)
        /\ kcalls[1].args[1] = lastOp.region.Data
        /\ kcalls[1].args[2] = lastOp.region.Len
    /\ (lastOp.op \in {"Lock", "Unlock"} /\ prev.op = lastOp.op) =>
        /\ Len(kcalls) = 1
        /\ ret.err = Errno(kcalls[1])

\* Lock right after a Lock that succeeded was forwarded and succeeded too.
C14_Witness ==
    /\ lastOp.op = "Lock"
    /\ prev = [op |-> "Lock", err |-> Nil]
    /\ Live
    /\ Len(kcalls) = 1
    /\ kcalls[1].sys = "mlock"
    /\ kcalls[1].errno = OK
    /\ ret.err = Nil

\* Two threads issued the kernel unmap for the same recorded range.
UnmappedTwice ==
    /\ \A t \in Threads : thr[t].calls # <<>>
    /\ thr[1].calls[1].args = thr[2].calls[1].args
    /\ thr[1].calls[1].args[1] # 0
\* No call of UnsafeUnmap began while another was in progress.
OneAfterTheOther == \A t \in Threads : ~thr[t].raced

\* C15: UnsafeUnmap calls on the same region made one after the other issue
\* the kernel unmap for the region's range at most once; calls that overlap
\* can both issue it (the witness is such an interleaving).
C15_SerialUnmapsOnce == OneAfterTheOther => ~UnmappedTwice

\* Both threads read the recorded base address before either cleared it, and
\* both issued munmap for the whole region.
C15_Witness ==
    /\ UnmappedTwice
    /\ \E t \in Threads : thr[t].raced
    /\ \A t \in Threads :
          /\ thr[t].region.Len > 0
          /\ thr[t].calls[1].args[1] = thr[t].region.Data
          /\ thr[t].calls[1].args[2] = thr[t].region.Len
          /\ thr[t].pc = "done"

\* C16: when the kernel call of UnsafeUnmap fails, UnsafeUnmap returns that
\* error and still sets Data and the internal bookkeeping to nil, while the
\* kernel's mapping stays as it was; and a retired object refuses every slice
\* other than nil, so the mapping cannot be reached through it any more.
C16_FailedUnmapStillRetires ==
    /\ [][(lastOp'.op = "UnsafeUnmap" /\ KernelFailed')
             => (/\ ret'.err = kcalls'[1].errno
                 /\ mmap'.Data = NilSlice
                 /\ mmap'.internalData = NilSlice
                 /\ kern' = kern)]_vars
    /\ [][(Retired /\ lastOp'.op \in ScopedOps /\ lastOp'.region # NilSlice)
             => (ret'.err = ErrRegion /\ kcalls' = <<>>)]_vars

\* UnsafeUnmap of a live region failed in the kernel: the object is retired
\* and the kernel still maps the whole region.
C16_Witness ==
    /\ lastOp.op = "UnsafeUnmap"
    /\ lastOp.region.Len > 0
    /\ KernelFailed
    /\ ret.err = ENOMEM
    /\ Retired
    /\ WholeMapped

====
